---- MODULE Spec2Model ----
(***************************************************************************)
(* State-machine model of the stepik_teachers Flask application            *)
(* (src/app.py): the relational store, the start-up data seed and the      *)
(* request handlers.  A response is held in `resp` until it is delivered;  *)
(* the handlers run one at a time (synchronous worker).                    *)
(***************************************************************************)
EXTENDS Integers, Sequences, FiniteSets, TLC

VARIABLES
    fixture,        \* the static dataset handed to the seed (data module)
    weekdays,       \* table Weekday      : sequence of rows
    goals,          \* table Goal         : sequence of rows
    teachers,       \* table Teacher      : sequence of rows
    teacherGoals,   \* join table Teacher<->Goal : sequence of <<teacher_id, goal_id>>
    requests,       \* table Request      : sequence of rows
    bookings,       \* table Booking      : sequence of rows
    pc,             \* per process: position in the start-up code
    seedResult,     \* per process: outcome of its last load_data call
    resp            \* the response being returned, or NoResp

vars == <<fixture, weekdays, goals, teachers, teacherGoals, requests, bookings,
          pc, seedResult, resp>>

tables == <<weekdays, goals, teachers, teacherGoals, requests, bookings>>

-----------------------------------------------------------------------------
(* Bounds *)

\* largest number of teachers in the dataset of the general specification
MaxTeachers == 3
\* teachers beyond the home page's sample size in the browsing specification
ExtraTeachers == 1
\* largest number of Request plus Booking rows
MaxRows == 2
\* number of server processes importing the application
NProcs == 2

\* random.sample(Teacher.query.all(), 6)
SampleSize == 6

Procs == 1..NProcs

-----------------------------------------------------------------------------
(* Sequence helpers *)

Range(s) == {s[i] : i \in DOMAIN s}

IsInjective(s) == \A i, j \in DOMAIN s : s[i] = s[j] => i = j

\* all sequences of k pairwise distinct elements of S
RECURSIVE InjSeqs(_, _)
InjSeqs(S, k) ==
    IF k = 0 THEN {<<>>}
    ELSE LET shorter == InjSeqs(S, k - 1)
         IN  {Append(q[1], q[2]) :
                 q \in {r \in shorter \X S : \A j \in DOMAIN r[1] : r[1][j] # r[2]}}

-----------------------------------------------------------------------------
(* The static dataset (weekdays, goals, teachers) that seeds the store *)

AllDays == <<"mon", "tue">>
AllSlots == <<"8:00", "10:00">>

RuName(d) == IF d = "mon" THEN "Ponedelnik" ELSE "Vtornik"

FixtureWeekdays(f) ==
    [k \in 1..Len(f.wds) |-> [short_name |-> f.wds[k], ru_name |-> RuName(f.wds[k])]]

FixtureGoals ==
    << [id |-> 1, name |-> "travel", ru_name |-> "Dlya puteshestviy"],
       [id |-> 2, name |-> "study",  ru_name |-> "Dlya ucheby"] >>

\* a teacher's free map: weekday short-name -> (slot label -> available?)
FixtureFree(i) ==
    [d \in (IF i % 3 = 0 THEN {"mon"} ELSE {"mon", "tue"}) |->
        [s \in Range(AllSlots) |->
            IF d = "mon" THEN (s = "8:00" \/ i % 2 = 0)
                         ELSE (s = "10:00" /\ i % 2 = 0)]]

FixtureTeacher(i) ==
    [id     |-> i,
     rating |-> 45 + (i % 2) * 3,
     price  |-> 900 + (i % 3) * 100,
     free   |-> FixtureFree(i),
     goals  |-> IF i % 2 = 1 THEN {"travel"} ELSE {"travel", "study"}]

FixtureTeachers(f) == [i \in 1..f.nT |-> FixtureTeacher(i)]

\* columns of the Teacher table (the goal names go to the join table)
TeacherRow(t) == [id |-> t.id, rating |-> t.rating, price |-> t.price, free |-> t.free]

RECURSIVE GoalLinks(_, _, _)
\* the join rows of teacher t: one per Goal row whose name is in t.goals
GoalLinks(t, gs, k) ==
    IF k > Len(gs) THEN <<>>
    ELSE (IF gs[k].name \in t.goals THEN << <<t.id, gs[k].id>> >> ELSE <<>>)
         \o GoalLinks(t, gs, k + 1)

RECURSIVE AllGoalLinks(_, _, _)
AllGoalLinks(ts, gs, k) ==
    IF k > Len(ts) THEN <<>>
    ELSE GoalLinks(ts[k], gs, 1) \o AllGoalLinks(ts, gs, k + 1)

-----------------------------------------------------------------------------
(* load_data(db): the start-up seed *)

\* the tables carry no unique keys: an insert never collides
UniqueViolation_none(f) == FALSE

\* a row to insert collides with a unique key already in the store
UniqueViolation(f) ==
    \/ \E i \in DOMAIN weekdays, k \in DOMAIN FixtureWeekdays(f) :
           weekdays[i].short_name = FixtureWeekdays(f)[k].short_name
    \/ \E i \in DOMAIN goals, k \in DOMAIN FixtureGoals :
           goals[i].id = FixtureGoals[k].id \/ goals[i].name = FixtureGoals[k].name
    \/ \E i \in DOMAIN teachers, k \in DOMAIN FixtureTeachers(f) :
           teachers[i].id = FixtureTeachers(f)[k].id

\* the emptiness check that guards the seed
SeedCheck(p) ==
    /\ pc[p] = "check"
    /\ pc' = [pc EXCEPT ![p] = IF Len(teachers) = 0 THEN "insert" ELSE "serve"]
    /\ seedResult' = [seedResult EXCEPT ![p] = IF Len(teachers) = 0 THEN "none" ELSE "skipped"]
    /\ UNCHANGED <<fixture, tables, resp>>

\* the insert of the whole dataset in one transaction; a uniqueness violation
\* rolls the transaction back and is logged
SeedInsert(p) ==
    /\ pc[p] = "insert"
    /\ pc' = [pc EXCEPT ![p] = "serve"]
    /\ IF UniqueViolation(fixture)
       THEN /\ seedResult' = [seedResult EXCEPT ![p] = "conflict"]
            /\ UNCHANGED <<weekdays, goals, teachers, teacherGoals>>
       ELSE /\ seedResult' = [seedResult EXCEPT ![p] = "inserted"]
            /\ weekdays' = weekdays \o FixtureWeekdays(fixture)
            /\ goals' = goals \o FixtureGoals
            /\ teachers' = teachers \o [i \in 1..fixture.nT |-> TeacherRow(FixtureTeachers(fixture)[i])]
            /\ teacherGoals' = teacherGoals \o AllGoalLinks(FixtureTeachers(fixture), FixtureGoals, 1)
    /\ UNCHANGED <<fixture, requests, bookings, resp>>

\* the process is started again (reloader) and imports the application anew
Restart(p) ==
    /\ pc[p] = "serve"
    /\ resp.route = "none"
    /\ pc' = [pc EXCEPT ![p] = "check"]
    /\ UNCHANGED <<fixture, tables, seedResult, resp>>

-----------------------------------------------------------------------------
(* Responses *)

NoResp == [route |-> "none", req |-> <<>>, status |-> 0, template |-> "none", ctx |-> <<>>]

\* the datasets tried: lo..hi teachers, all weekdays or only the first
Fixtures(lo, hi, days) == [nT : lo..hi, wds : days]

Response(route, req, status, template, ctx) ==
    [route |-> route, req |-> req, status |-> status, template |-> template, ctx |-> ctx]

\* an exception no handler catches: Flask answers 500
Unhandled(route, req, exc) == Response(route, req, 500, "none", [error |-> exc])

\* @app.errorhandler(404): the body of error.html is returned without a status
\* code, so the response carries Flask's default status
render_error(route, req) == Response(route, req, 200, "error.html", [error |-> "NotFound"])

\* a handler may run when a process has finished its import and no response
\* is pending
Serving == resp.route = "none" /\ \E p \in Procs : pc[p] = "serve"

-----------------------------------------------------------------------------
(* Query helpers: a lookup yields a sequence of at most one row, <<>> for None *)

QueryGet(table, id) ==
    LET Match(r) == r.id = id
        found == SelectSeq(table, Match)
    IN  IF found = <<>> THEN <<>> ELSE <<found[1]>>

WeekdayFirst(short) ==
    LET Match(r) == r.short_name = short
        found == SelectSeq(weekdays, Match)
    IN  IF found = <<>> THEN <<>> ELSE <<found[1]>>

\* goal.teachers: the teachers joined to a goal
TeachersOfGoal(g) ==
    LET Linked(t) == \E k \in DOMAIN teacherGoals : teacherGoals[k] = <<t.id, g.id>>
    IN  SelectSeq(teachers, Linked)

\* teacher.goals: the goals joined to a teacher
GoalsOfTeacher(t) ==
    LET Linked(g) == \E k \in DOMAIN teacherGoals : teacherGoals[k] = <<t.id, g.id>>
    IN  SelectSeq(goals, Linked)

\* all orders of the rows of a table
RowOrders(table) ==
    {[k \in 1..Len(table) |-> table[ix[k]]] : ix \in InjSeqs(1..Len(table), Len(table))}

-----------------------------------------------------------------------------
(* int(): text is a tuple of one-character strings *)

Digits == <<"0", "1", "2", "3", "4", "5", "6", "7", "8", "9">>

IsDigit(c) == \E d \in DOMAIN Digits : Digits[d] = c

DigitVal(c) == (CHOOSE d \in DOMAIN Digits : Digits[d] = c) - 1

RECURSIVE DigitsVal(_)
DigitsVal(s) ==
    IF s = <<>> THEN 0
    ELSE 10 * DigitsVal(SubSeq(s, 1, Len(s) - 1)) + DigitVal(s[Len(s)])

\* int(text): an optional sign, then one or more digits; anything else raises
\* ValueError (ok = FALSE)
PyInt(s) ==
    LET signed == s # <<>> /\ s[1] \in {"-", "+"}
        body   == IF signed THEN Tail(s) ELSE s
    IN  IF body = <<>> \/ \E k \in DOMAIN body : ~IsDigit(body[k])
        THEN [ok |-> FALSE, val |-> 0]
        ELSE [ok |-> TRUE,
              val |-> IF signed /\ s[1] = "-" THEN 0 - DigitsVal(body) ELSE DigitsVal(body)]

-----------------------------------------------------------------------------
(* sort_teachers and the listing pages *)

RatingDesc(ts) == \A k \in 1..(Len(ts) - 1) : ts[k].rating >= ts[k + 1].rating
PriceDesc(ts) == \A k \in 1..(Len(ts) - 1) : ts[k].price >= ts[k + 1].price
PriceAsc(ts) == \A k \in 1..(Len(ts) - 1) : ts[k].price <= ts[k + 1].price

\* the lists sort_teachers may return: ORDER BY leaves the order of equal keys
\* open, random.sample(all, len(all)) is any permutation
sort_teachers(sort_type) ==
    IF sort_type = 1 THEN {ts \in RowOrders(teachers) : RatingDesc(ts)}
    ELSE IF sort_type = 2 THEN {ts \in RowOrders(teachers) : PriceDesc(ts)}
    ELSE IF sort_type = 3 THEN {ts \in RowOrders(teachers) : PriceAsc(ts)}
    ELSE RowOrders(teachers)

\* random.choices(population, k=k): positions may repeat
RandomSample_choices(population, k) ==
    {[j \in 1..k |-> population[ix[j]]] : ix \in [1..k -> 1..Len(population)]}

\* random.sample(population, k): k rows at pairwise distinct positions
RandomSample(population, k) ==
    {[j \in 1..k |-> population[ix[j]]] : ix \in InjSeqs(1..Len(population), k)}

\* GET /
render_index ==
    /\ Serving
    /\ IF SampleSize > Len(teachers)
       THEN resp' = Unhandled("index", <<>>, "ValueError")
       ELSE \E random_teachers \in RandomSample(teachers, SampleSize) :
                resp' = Response("index", <<>>, 200, "index.html",
                                 [goals |-> goals, teachers |-> random_teachers])
    /\ UNCHANGED <<fixture, tables, pc, seedResult>>

\* the value of sort_by that SortForm() carries when none is given
SortFormDefault == <<"0">>

\* the query strings tried for /all/ (<<>>: no sort_by, or an empty one)
SortInputs == {<<>>, <<"1">>, <<"2">>, <<"3">>, <<"7">>, <<"-", "1">>, <<"a", "b">>, <<"2", "x">>}

\* GET /all/?sort_by=...
render_all(sort_by) ==
    /\ Serving
    /\ LET data == IF sort_by # <<>> THEN sort_by ELSE SortFormDefault
           sort_type == PyInt(data)
       IN  IF ~sort_type.ok
           THEN resp' = Unhandled("all", sort_by, "ValueError")
           ELSE \E ts \in sort_teachers(sort_type.val) :
                    resp' = Response("all", sort_by, 200, "all.html",
                                     [teachers |-> ts, sort_by |-> data])
    /\ UNCHANGED <<fixture, tables, pc, seedResult>>

-----------------------------------------------------------------------------
(* Goal and profile pages *)

\* path parameters <int:goal_id>, <int:teacher_id>
GoalIds == 0..(Len(FixtureGoals) + 1)
TeacherIds == 0..(MaxTeachers + 1)

\* GET /goals/<goal_id>/
render_goal(goal_id) ==
    /\ Serving
    /\ LET goal == QueryGet(goals, goal_id)
       IN  IF goal = <<>>
           THEN resp' = Unhandled("goal", goal_id, "AttributeError")
           ELSE resp' = Response("goal", goal_id, 200, "goal.html",
                                 [teachers |-> TeachersOfGoal(goal[1]), goal |-> goal[1]])
    /\ UNCHANGED <<fixture, tables, pc, seedResult>>

RECURSIVE FreeSlots(_, _)
\* [slot for slot, free in times.items() if free], in the order of the slots
FreeSlots(times, k) ==
    IF k > Len(AllSlots) THEN <<>>
    ELSE (IF AllSlots[k] \in DOMAIN times /\ times[AllSlots[k]] THEN <<AllSlots[k]>> ELSE <<>>)
         \o FreeSlots(times, k + 1)

\* the free_times mapping of a teacher whose days are all known weekdays
FreeTimes(teacher) ==
    [day \in DOMAIN teacher.free |->
        [ru_name   |-> WeekdayFirst(day)[1].ru_name,
         timeslots |-> FreeSlots(teacher.free[day], 1)]]

\* GET /profiles/<teacher_id>/
render_profile(teacher_id) ==
    /\ Serving
    /\ LET teacher == QueryGet(teachers, teacher_id)
       IN  IF teacher = <<>>
           THEN resp' = render_error("profile", teacher_id)
           ELSE IF \E day \in DOMAIN teacher[1].free : WeekdayFirst(day) = <<>>
           THEN resp' = Unhandled("profile", teacher_id, "AttributeError")
           ELSE resp' = Response("profile", teacher_id, 200, "profile.html",
                                 [teacher    |-> teacher[1],
                                  goals      |-> GoalsOfTeacher(teacher[1]),
                                  free_times |-> FreeTimes(teacher[1])])
    /\ UNCHANGED <<fixture, tables, pc, seedResult>>

-----------------------------------------------------------------------------
(* The request form *)

RECURSIVE GoalChoices(_)
\* [(goal.id, goal.ru_name) for goal in Goal.query.all()]
GoalChoices(gs) ==
    IF gs = <<>> THEN <<>> ELSE << <<gs[1].id, gs[1].ru_name>> >> \o GoalChoices(Tail(gs))

\* GET /request/ that stores the pre-filled form as a Request row
render_request_form_saving ==
    /\ Serving
    /\ resp' = Response("request", <<>>, 200, "request.html",
                        [choices |-> GoalChoices(goals), goals_data |-> <<"1">>])
    /\ requests' = Append(requests, [name |-> "", goal_id |-> 1, phone |-> "", time |-> ""])
    /\ UNCHANGED <<fixture, weekdays, goals, teachers, teacherGoals, bookings, pc, seedResult>>

\* GET /request/
render_request_form ==
    /\ Serving
    /\ resp' = Response("request", <<>>, 200, "request.html",
                        [choices |-> GoalChoices(goals), goals_data |-> <<"1">>])
    /\ UNCHANGED <<fixture, tables, pc, seedResult>>

\* RequestForm.times.choices: value -> label
TimeChoices ==
    [v \in {"1-3", "3-5", "5-7", "7-10"} |->
        IF v = "1-3" THEN "1-3 hours/week"
        ELSE IF v = "3-5" THEN "3-5 hours/week"
        ELSE IF v = "5-7" THEN "5-7 hours/week"
        ELSE "7-10 hours/week"]

\* the phone pattern of the forms
PhoneValid(phone) == phone \in {"+1234567890", "+79991234567"}

\* the values posted in the forms
Names == {"", "Ann"}
Phones == {"+1234567890", "12ab"}
GoalInputs == {<<"1">>, <<"9">>}
TimeInputs == {"1-3", "never"}
TeacherInputs == {<<"1">>, <<"9">>}
WeekdayInputs == {"mon", "sun"}

RequestForms == [name : Names, phone : Phones, goals : GoalInputs, times : TimeInputs]

\* the foreign key Request.goal_id -> Goal.id
RequestKeysOk(row) == QueryGet(goals, row.goal_id) # <<>>

\* POST /request_done/
render_request_done(form) ==
    /\ Serving
    /\ Len(requests) + Len(bookings) < MaxRows
    /\ LET goal_id == PyInt(form.goals)
           goal_ru == IF goal_id.ok THEN QueryGet(goals, goal_id.val) ELSE <<>>
       IN  IF ~goal_id.ok
           THEN /\ resp' = Unhandled("request_done", form, "DataError")
                /\ UNCHANGED requests
           ELSE IF form.times \notin DOMAIN TimeChoices
           THEN /\ resp' = Unhandled("request_done", form, "KeyError")
                /\ UNCHANGED requests
           ELSE LET time_chosen == TimeChoices[form.times]
                    row == [name    |-> form.name,
                            goal_id |-> goal_id.val,
                            phone   |-> form.phone,
                            time    |-> time_chosen]
                IN  IF ~RequestKeysOk(row)
                    THEN /\ resp' = Unhandled("request_done", form, "IntegrityError")
                         /\ UNCHANGED requests
                    ELSE /\ requests' = Append(requests, row)
                         /\ resp' = Response("request_done", form, 200, "request_done.html",
                                             [form |-> form, goal |-> goal_ru, time |-> time_chosen])
    /\ UNCHANGED <<fixture, weekdays, goals, teachers, teacherGoals, bookings, pc, seedResult>>

-----------------------------------------------------------------------------
(* The booking form *)

\* GET /booking/<teacher_id>/<weekday>/<time>/
render_booking_form(teacher_id, weekday, time) ==
    /\ Serving
    /\ LET teacher == QueryGet(teachers, teacher_id)
           wd == WeekdayFirst(weekday)
           req == <<teacher_id, weekday, time>>
       IN  IF teacher = <<>>
           THEN resp' = Unhandled("booking", req, "AttributeError")
           ELSE resp' = Response("booking", req, 200, "booking.html",
                                 [form    |-> [weekday |-> weekday, time |-> time,
                                               teacher_id |-> teacher[1].id],
                                  teacher |-> teacher[1],
                                  weekday |-> wd])
    /\ UNCHANGED <<fixture, tables, pc, seedResult>>

BookingForms == [name : Names, phone : Phones, teacher_id : TeacherInputs,
                 weekday : WeekdayInputs, time : Range(AllSlots)]

\* the foreign keys Booking.teacher_id -> Teacher.id and
\* Booking.day_short_name -> Weekday.short_name
BookingKeysOk(row) ==
    /\ QueryGet(teachers, row.teacher_id) # <<>>
    /\ WeekdayFirst(row.day_short_name) # <<>>

\* POST /booking_done/ that refuses a slot not flagged available
render_booking_done_checking(form) ==
    /\ Serving
    /\ Len(requests) + Len(bookings) < MaxRows
    /\ LET wd == WeekdayFirst(form.weekday)
           teacher_id == PyInt(form.teacher_id)
           row == [name           |-> form.name,
                   phone          |-> form.phone,
                   teacher_id     |-> teacher_id.val,
                   day_short_name |-> form.weekday,
                   time           |-> form.time]
           available == \E k \in DOMAIN teachers :
                            /\ teachers[k].id = row.teacher_id
                            /\ row.day_short_name \in DOMAIN teachers[k].free
                            /\ row.time \in DOMAIN teachers[k].free[row.day_short_name]
                            /\ teachers[k].free[row.day_short_name][row.time]
       IN  IF ~teacher_id.ok \/ ~BookingKeysOk(row) \/ ~available
           THEN /\ resp' = Unhandled("booking_done", form, "IntegrityError")
                /\ UNCHANGED bookings
           ELSE /\ bookings' = Append(bookings, row)
                /\ resp' = Response("booking_done", form, 200, "booking_done.html",
                                    [weekday |-> wd, form |-> form])
    /\ UNCHANGED <<fixture, weekdays, goals, teachers, teacherGoals, requests, pc, seedResult>>

\* POST /booking_done/
render_booking_done(form) ==
    /\ Serving
    /\ Len(requests) + Len(bookings) < MaxRows
    /\ LET wd == WeekdayFirst(form.weekday)
           teacher_id == PyInt(form.teacher_id)
           row == [name           |-> form.name,
                   phone          |-> form.phone,
                   teacher_id     |-> teacher_id.val,
                   day_short_name |-> form.weekday,
                   time           |-> form.time]
       IN  IF ~teacher_id.ok
           THEN /\ resp' = Unhandled("booking_done", form, "DataError")
                /\ UNCHANGED bookings
           ELSE IF ~BookingKeysOk(row)
           THEN /\ resp' = Unhandled("booking_done", form, "IntegrityError")
                /\ UNCHANGED bookings
           ELSE /\ bookings' = Append(bookings, row)
                /\ resp' = Response("booking_done", form, 200, "booking_done.html",
                                    [weekday |-> wd, form |-> form])
    /\ UNCHANGED <<fixture, weekdays, goals, teachers, teacherGoals, requests, pc, seedResult>>

\* the response reaches the client
Deliver ==
    /\ resp.route # "none"
    /\ resp' = NoResp
    /\ UNCHANGED <<fixture, tables, pc, seedResult>>

\* after the import: the store holds the dataset
Seeded(lo, hi, days) ==
    /\ fixture \in Fixtures(lo, hi, days)
    /\ weekdays = FixtureWeekdays(fixture)
    /\ goals = FixtureGoals
    /\ teachers = [i \in 1..fixture.nT |-> TeacherRow(FixtureTeachers(fixture)[i])]
    /\ teacherGoals = AllGoalLinks(FixtureTeachers(fixture), FixtureGoals, 1)
    /\ requests = <<>> /\ bookings = <<>>
    /\ pc = [p \in Procs |-> "serve"]
    /\ seedResult = [p \in Procs |-> IF p = 1 THEN "inserted" ELSE "skipped"]
    /\ resp = NoResp

InitBrowse == Seeded(SampleSize - 1, SampleSize + ExtraTeachers, {AllDays})

NextBrowse == render_index \/ (\E sort_by \in SortInputs : render_all(sort_by)) \/ Deliver

SpecBrowse == InitBrowse /\ [][NextBrowse]_vars

Init == Seeded(0, MaxTeachers, {AllDays, SubSeq(AllDays, 1, 1)})

Next ==
    \/ render_index
    \/ \E sort_by \in SortInputs : render_all(sort_by)
    \/ \E goal_id \in GoalIds : render_goal(goal_id)
    \/ \E teacher_id \in TeacherIds : render_profile(teacher_id)
    \/ render_request_form
    \/ \E form \in RequestForms : render_request_done(form)
    \/ \E teacher_id \in TeacherIds, weekday \in WeekdayInputs \cup {"tue"}, time \in Range(AllSlots) :
           render_booking_form(teacher_id, weekday, time)
    \/ \E form \in BookingForms : render_booking_done(form)
    \/ Deliver

Spec == Init /\ [][Next]_vars

\* before the first import: an empty store
InitSeed ==
    /\ fixture \in Fixtures(0, MaxTeachers, {AllDays, SubSeq(AllDays, 1, 1)})
    /\ weekdays = <<>> /\ goals = <<>> /\ teachers = <<>> /\ teacherGoals = <<>>
    /\ requests = <<>> /\ bookings = <<>>
    /\ pc = [p \in Procs |-> "check"]
    /\ seedResult = [p \in Procs |-> "none"]
    /\ resp = NoResp

SeedNext == \E p \in Procs : SeedCheck(p) \/ SeedInsert(p) \/ Restart(p)

SpecSeed == InitSeed /\ [][SeedNext]_vars

-----------------------------------------------------------------------------
(* Form validation as the forms are documented: the handlers above never    *)
(* call it; the claims about rejected submissions are stated with it.       *)

RequestFormValid(form) ==
    /\ form.name # ""
    /\ PhoneValid(form.phone)
    /\ PyInt(form.goals).ok /\ QueryGet(goals, PyInt(form.goals).val) # <<>>
    /\ form.times \in DOMAIN TimeChoices

BookingFormValid(form) ==
    /\ form.name # ""
    /\ PhoneValid(form.phone)
    /\ PyInt(form.teacher_id).ok /\ QueryGet(teachers, PyInt(form.teacher_id).val) # <<>>
    /\ WeekdayFirst(form.weekday) # <<>>

\* s is t with exactly one row appended
AppendsOne(s, t) == Len(s) = Len(t) + 1 /\ SubSeq(s, 1, Len(t)) = t

\* a handler has just answered a request on the given route
Handled(route) == resp.route = "none" /\ resp'.route = route

-----------------------------------------------------------------------------
(* Claims *)

\* C1: a POST to /request_done/ whose form fails validation is rejected: the
\* form is rendered again and the Request table keeps exactly its rows.
C1_InvalidRequestRejected ==
    [][(Handled("request_done") /\ ~RequestFormValid(resp'.req))
          => (requests' = requests /\ resp'.template = "request.html")]_vars

\* C2: a POST to /booking_done/ with a valid form appends exactly one Booking
\* row carrying the submitted name, phone, teacher_id, weekday and time, and a
\* form that fails validation appends none.
C2_BookingRowIffValid ==
    [][Handled("booking_done")
          => IF BookingFormValid(resp'.req)
             THEN /\ AppendsOne(bookings', bookings)
                  /\ bookings'[Len(bookings')] =
                        [name           |-> resp'.req.name,
                         phone          |-> resp'.req.phone,
                         teacher_id     |-> PyInt(resp'.req.teacher_id).val,
                         day_short_name |-> resp'.req.weekday,
                         time           |-> resp'.req.time]
             ELSE bookings' = bookings]_vars

GetRoutes == {"index", "all", "goal", "profile", "request", "booking"}

\* C3: the only changes to the store are the append of one Request row by
\* /request_done/ and of one Booking row by /booking_done/; every GET route
\* leaves all tables unchanged and no Request or Booking row is modified or
\* removed.
C3_OnlyAppends ==
    [][/\ <<weekdays, goals, teachers, teacherGoals>>' = <<weekdays, goals, teachers, teacherGoals>>
       /\ \/ requests' = requests
          \/ AppendsOne(requests', requests) /\ Handled("request_done") /\ bookings' = bookings
       /\ \/ bookings' = bookings
          \/ AppendsOne(bookings', bookings) /\ Handled("booking_done") /\ requests' = requests
       /\ resp'.route \in GetRoutes => tables' = tables]_vars

\* C3 witness: a GET page was rendered over a store that holds a Request and a
\* Booking row.
C3_Witness ==
    /\ Len(requests) = 1 /\ Len(bookings) = 1
    /\ resp.route = "profile" /\ resp.status = 200 /\ resp.template = "profile.html"

\* the days of the teacher's free map are all known weekdays
FreeKeysKnown(t) == \A day \in DOMAIN t.free : WeekdayFirst(day) # <<>>

\* the profile shows, for each day of the free map, the weekday's ru_name and
\* exactly the slots flagged true
ProfileShowsFreeSlots(t, free_times) ==
    /\ DOMAIN free_times = DOMAIN t.free
    /\ \A day \in DOMAIN t.free :
          /\ \E k \in DOMAIN weekdays :
                 weekdays[k].short_name = day /\ free_times[day].ru_name = weekdays[k].ru_name
          /\ IsInjective(free_times[day].timeslots)
          /\ Range(free_times[day].timeslots) = {slot \in DOMAIN t.free[day] : t.free[day][slot]}

\* C4: /profiles/{id}/ for a stored teacher (free-map days all known) answers
\* 200 with free_times holding exactly the available slots per day; for an id
\* not in the store it answers 404.
C4_ProfileOr404 ==
    resp.route = "profile" =>
        LET teacher == QueryGet(teachers, resp.req)
        IN  IF teacher = <<>>
            THEN resp.status = 404
            ELSE FreeKeysKnown(teacher[1]) =>
                    /\ resp.status = 200
                    /\ ProfileShowsFreeSlots(teacher[1], resp.ctx.free_times)

\* C5: /goals/{goal_id}/ for an id matching no Goal row gives the NotFound
\* outcome (404 with the error page); for an existing goal it renders exactly
\* the teachers associated with that goal.
C5_GoalOr404 ==
    resp.route = "goal" =>
        LET goal == QueryGet(goals, resp.req)
        IN  IF goal = <<>>
            THEN resp.status = 404 /\ resp.template = "error.html"
            ELSE /\ resp.status = 200
                 /\ IsInjective(resp.ctx.teachers)
                 /\ Range(resp.ctx.teachers) =
                        {teachers[k] : k \in {j \in DOMAIN teachers :
                            \E l \in DOMAIN teacherGoals :
                                teacherGoals[l] = <<teachers[j].id, goal[1].id>>}}

\* C6: /booking/{teacher_id}/{weekday}/{time}/ with an unknown teacher or
\* weekday ends in 404 or in a rendered form whose missing entity is None,
\* never in an unhandled error; with both known the form carries the path
\* parameters in its hidden fields.
C6_BookingFormOutcome ==
    resp.route = "booking" =>
        LET teacher == QueryGet(teachers, resp.req[1])
            wd == WeekdayFirst(resp.req[2])
        IN  IF teacher # <<>> /\ wd # <<>>
            THEN /\ resp.status = 200 /\ resp.template = "booking.html"
                 /\ resp.ctx.form = [teacher_id |-> resp.req[1], weekday |-> resp.req[2],
                                     time |-> resp.req[3]]
            ELSE \/ resp.status = 404
                 \/ /\ resp.status = 200 /\ resp.template = "booking.html"
                    /\ (teacher = <<>> => resp.ctx.teacher = <<>>)
                    /\ (wd = <<>> => resp.ctx.weekday = <<>>)

\* ts holds each row of the table exactly once
IsPermutationOf(ts, table) ==
    Len(ts) = Len(table) /\ IsInjective(ts) /\ Range(ts) = Range(table)

\* C7: /all/ with a sort_by that is no valid mode (non-numeric text, a number
\* out of range) or with none falls back to the random permutation of all
\* teachers instead of failing; modes 1, 2, 3 give rating descending, price
\* descending, price ascending.
C7_SortFallsBack ==
    resp.route = "all" =>
        /\ resp.status = 200
        /\ IsPermutationOf(resp.ctx.teachers, teachers)
        /\ resp.req = <<"1">> => RatingDesc(resp.ctx.teachers)
        /\ resp.req = <<"2">> => PriceDesc(resp.ctx.teachers)
        /\ resp.req = <<"3">> => PriceAsc(resp.ctx.teachers)

\* the home page shows SampleSize pairwise distinct Teacher rows and all goals
HomeShowsSample ==
    /\ resp.status = 200 /\ resp.template = "index.html"
    /\ Len(resp.ctx.teachers) = SampleSize
    /\ IsInjective(resp.ctx.teachers)
    /\ Range(resp.ctx.teachers) \subseteq Range(teachers)
    /\ resp.ctx.goals = goals

\* C8 as stated: GET / never fails, whatever the number of Teacher rows, and
\* renders exactly 6 pairwise distinct teachers of the table with all goals.
C8_HomeNeverFails == resp.route = "index" => HomeShowsSample

\* C8 amended: with at least 6 Teacher rows GET / renders exactly 6 pairwise
\* distinct teachers of the table with all Goal rows; with fewer than 6 it
\* fails with the unhandled ValueError of random.sample (500).
C8_HomeSampleWhenEnough ==
    resp.route = "index" =>
        IF Len(teachers) >= SampleSize THEN HomeShowsSample ELSE resp.status = 500

\* C8 witness: the home page was rendered from a table larger than the sample.
C8_Witness ==
    resp.route = "index" /\ resp.status = 200 /\ Len(teachers) > Len(resp.ctx.teachers)

RowCounts == <<Len(weekdays), Len(goals), Len(teachers), Len(teacherGoals)>>

StorePopulated == Len(weekdays) + Len(goals) + Len(teachers) > 0

\* C9: once the store is populated, further seed invocations leave the
\* Weekday, Goal, Teacher and Teacher-Goal row counts unchanged; an attempt
\* that hits a uniqueness violation changes no table and the process goes on
\* to serve.
C9_SeedIdempotent ==
    [][/\ StorePopulated => RowCounts' = RowCounts
       /\ \A p \in Procs :
             (pc[p] = "insert" /\ pc'[p] # "insert" /\ StorePopulated)
                => (seedResult'[p] = "conflict" /\ pc'[p] = "serve" /\ tables' = tables)]_vars

\* C9 witness: two processes passed the emptiness check together; one
\* inserted the dataset, the other hit the uniqueness violation.
C9_Witness ==
    \E p, q \in Procs :
        /\ seedResult[p] = "inserted" /\ seedResult[q] = "conflict"
        /\ pc[p] = "serve" /\ pc[q] = "serve"
        /\ Len(teachers) > 0

\* the slot's flag in the teacher's free map is false
SlotUnavailable(teacher_id, weekday, time) ==
    \E k \in DOMAIN teachers :
        /\ teachers[k].id = teacher_id
        /\ weekday \in DOMAIN teachers[k].free
        /\ time \in DOMAIN teachers[k].free[weekday]
        /\ ~teachers[k].free[weekday][time]

\* C10: booking creation does not consult availability: a POST naming a stored
\* teacher and weekday with a slot flagged false appends a Booking row, also
\* when a Booking for the same teacher, weekday and time already exists.
C10_BookingIgnoresAvailability ==
    [][(/\ Handled("booking_done")
        /\ PyInt(resp'.req.teacher_id).ok
        /\ WeekdayFirst(resp'.req.weekday) # <<>>
        /\ SlotUnavailable(PyInt(resp'.req.teacher_id).val, resp'.req.weekday, resp'.req.time))
          => /\ AppendsOne(bookings', bookings)
             /\ bookings'[Len(bookings')].time = resp'.req.time
             /\ resp'.status = 200]_vars

\* C10 witness: the store holds two Booking rows for one slot, and that slot
\* is flagged unavailable.
C10_Witness ==
    /\ Len(bookings) = 2
    /\ bookings[1].teacher_id = bookings[2].teacher_id
    /\ bookings[1].day_short_name = bookings[2].day_short_name
    /\ bookings[1].time = bookings[2].time
    /\ SlotUnavailable(bookings[1].teacher_id, bookings[1].day_short_name, bookings[1].time)

====
